---- MODULE Spec2Model ----
(***************************************************************************)
(* Model of server/app/main.py of MarketDashboard: the timeframe resolver, *)
(* the ISO date parser and time-range resolution of /get-stock-bars, the   *)
(* response normalizer (_serialize_response, _limit_mover_payload) over a  *)
(* heap of Python objects, and the eight route handlers with their vendor  *)
(* calls.                                                                  *)
(*                                                                         *)
(* Three specifications share the variables:                               *)
(*   SpecTimeframe  _resolve_timeframe applied to drawn inputs             *)
(*   SpecMovers     _limit_mover_payload applied to drawn payloads/limits  *)
(*   Spec           the server: one request at a time through a handler    *)
(***************************************************************************)
EXTENDS Integers, Sequences, FiniteSets, TLC

VARIABLES
    pc,         \* control position: "idle" | "blocked" | "done" (server),
                \* "call" | "returned" (function under test)
    tfArg,      \* argument of _resolve_timeframe (Optional[str])
    tfRet,      \* its return value
    heap,       \* the Python object heap: address -> object
    heap0,      \* the heap as it was when _limit_mover_payload was entered
    arg,        \* address of the payload passed to _limit_mover_payload
    lim,        \* the limit passed to _limit_mover_payload
    ret,        \* address returned by _limit_mover_payload
    route,      \* route of the request in flight
    query,      \* its query parameters
    now,        \* the instant datetime.now(timezone.utc) returned
    events,     \* vendor SDK interactions of the request, in program order
    vendorReq,  \* the vendor request object handed to the vendor call
    response,   \* what the handler produced
    delivered,  \* bars the live stream has received
    callbacks,  \* invocations of handle_bar_data
    printed     \* lines handle_bar_data has printed

vars == <<pc, tfArg, tfRet, heap, heap0, arg, lim, ret, route, query, now,
          events, vendorReq, response, delivered, callbacks, printed>>

tfVars == <<tfArg, tfRet>>
mvVars == <<heap0, arg, lim, ret>>
reqVars == <<route, query, now, events, vendorReq, response>>
liveVars == <<delivered, callbacks, printed>>

\* ------------------------------------------------------------------ bounds
MaxPad == 1      \* longest run of whitespace put around a timeframe token
MaxLen == 7      \* longest list in a vendor mover payload
MaxLimit == 8    \* largest limit handed to _limit_mover_payload
MaxHour == 3     \* latest instant a drawn date string denotes
MaxBars == 3     \* bars delivered to one live stream

\* ------------------------------------------------------- Optional[str]
\* A str is a sequence of characters; Optional[str] adds None.
NoneStr == [some |-> FALSE, s |-> <<>>]

Str(s) == [some |-> TRUE, s |-> s]

\* Python truthiness of an Optional[str]: None and "" are falsy.
Truthy(value) == value.some /\ value.s # <<>>

Whitespace == {" ", "\t"}

RECURSIVE LStrip(_)
LStrip(s) ==
    IF s # <<>> /\ Head(s) \in Whitespace THEN LStrip(Tail(s)) ELSE s

RECURSIVE RStrip(_)
RStrip(s) ==
    IF s # <<>> /\ s[Len(s)] \in Whitespace
    THEN RStrip(SubSeq(s, 1, Len(s) - 1))
    ELSE s

\* str.strip()
Strip(s) == RStrip(LStrip(s))

\* --------------------------------------------------- _resolve_timeframe
TimeFrame(amount, unit) == [amount |-> amount, unit |-> unit]

TimeFrameMinute == TimeFrame(1, "Minute")
TimeFrameHour == TimeFrame(1, "Hour")
TimeFrameDay == TimeFrame(1, "Day")

Tok1Min == <<"1", "M", "i", "n">>
Tok5Min == <<"5", "M", "i", "n">>
Tok15Min == <<"1", "5", "M", "i", "n">>
Tok1Hour == <<"1", "H", "o", "u", "r">>
Tok1Day == <<"1", "D", "a", "y">>

ResolveTimeframeSwapped(value) ==
    IF ~Truthy(value) THEN TimeFrameMinute
    ELSE LET normalized == Strip(value.s) IN
         IF normalized = Tok1Min THEN TimeFrameMinute
         ELSE IF normalized = Tok5Min THEN TimeFrame(15, "Minute")
         ELSE IF normalized = Tok15Min THEN TimeFrame(5, "Minute")
         ELSE IF normalized = Tok1Hour THEN TimeFrameHour
         ELSE IF normalized = Tok1Day THEN TimeFrameDay
         ELSE TimeFrameMinute

ResolveTimeframe(value) ==
    IF ~Truthy(value) THEN TimeFrameMinute
    ELSE LET normalized == Strip(value.s) IN
         IF normalized = Tok1Min THEN TimeFrameMinute
         ELSE IF normalized = Tok5Min THEN TimeFrame(5, "Minute")
         ELSE IF normalized = Tok15Min THEN TimeFrame(15, "Minute")
         ELSE IF normalized = Tok1Hour THEN TimeFrameHour
         ELSE IF normalized = Tok1Day THEN TimeFrameDay
         ELSE TimeFrameMinute

\* ------------------------------------------------------ the object heap
(* Every Python value is an object on the heap, named by its address.  A   *)
(* dict maps keys to addresses, a list holds opaque elements (movers), a   *)
(* vendor model object offers model_dump() and/or dict(), each returning   *)
(* the object at the address attrs gives.                                  *)
Absent == -1

Keys == {"gainers", "losers", "items", "data", "list", "bars", "other"}

Attrs == {"model_dump", "dict"}

NoMap == [k \in Keys |-> Absent]

NoAttrs == [m \in Attrs |-> Absent]

Obj(kind, elems, map, attrs) ==
    [kind |-> kind, elems |-> elems, map |-> map, attrs |-> attrs]

FreeObj == Obj("free", <<>>, NoMap, NoAttrs)

NoneObj == Obj("none", <<>>, NoMap, NoAttrs)

StrObj == Obj("str", <<>>, NoMap, NoAttrs)

ListObj(elems) == Obj("list", elems, NoMap, NoAttrs)

DictObj(map) == Obj("dict", <<>>, map, NoAttrs)

ModelObj(attrs) == Obj("model", <<>>, NoMap, attrs)

\* Where the objects of a vendor payload are laid out; the addresses from
\* free up to last are unallocated when the handler starts.
Layout ==
    [none |-> 0, top |-> 1, gainers |-> 2, losers |-> 3,
     gslots |-> <<4, 5, 6>>, lslots |-> <<7, 8, 9>>, other |-> 10,
     str |-> 11, wrapper |-> 12, legacy |-> 13, free |-> 14, last |-> 19]

Addrs == Layout.none .. Layout.last

EmptyHeap ==
    [a \in Addrs |->
        IF a = Layout.none THEN NoneObj
        ELSE IF a = Layout.str THEN StrObj
        ELSE FreeObj]

\* isinstance(value, list) / isinstance(value, dict); a missing key
\* (dict.get -> None) is neither.
IsList(h, a) == a # Absent /\ h[a].kind = "list"

IsDict(h, a) == a # Absent /\ h[a].kind = "dict"

\* The address the next allocation returns.
Fresh(h) ==
    CHOOSE a \in Addrs :
        /\ h[a].kind = "free"
        /\ \A b \in Addrs : h[b].kind = "free" => a <= b

\* ------------------------------------------------- _limit_mover_payload
PySliceToOffByOne(s, n) ==
    LET len == Len(s)
        stop == IF n < 0
                THEN (IF len + n < 0 THEN 0 ELSE len + n)
                ELSE (IF n + 1 > len THEN len ELSE n + 1)
    IN  SubSeq(s, 1, stop)

\* s[:n] with Python's slice rules: a negative n counts from the end.
PySliceTo(s, n) ==
    LET len == Len(s)
        stop == IF n < 0
                THEN (IF len + n < 0 THEN 0 ELSE len + n)
                ELSE (IF n > len THEN len ELSE n)
    IN  SubSeq(s, 1, stop)

CopyDictAliased(h, a) == [heap |-> h, addr |-> a]

\* dict(x): a new dict holding the same values under the same keys.
CopyDict(h, a) ==
    [heap |-> [h EXCEPT ![Fresh(h)] = DictObj(h[a].map)], addr |-> Fresh(h)]

\* value[:limit]: a new list.
NewSlice(h, a, limit) ==
    [heap |-> [h EXCEPT ![Fresh(h)] = ListObj(PySliceTo(h[a].elems, limit))],
     addr |-> Fresh(h)]

Sides == <<"gainers", "losers">>

NestedKeysDataFirst == <<"data", "items", "list">>

NestedKeys == <<"items", "data", "list">>

\* Index in NestedKeys of the key the inner loop breaks at, 0 when it
\* runs to its end.
FirstListKey(h, d) ==
    LET hits == {i \in 1..Len(NestedKeys) : IsList(h, h[d].map[NestedKeys[i]])}
    IN  IF hits = {} THEN 0
        ELSE CHOOSE i \in hits : \A j \in hits : i <= j

\* One pass of the loop over sides; trimmed is the address of the copy.
TrimSide(h, trimmed, side, limit) ==
    LET value == h[trimmed].map[side] IN
    IF value = Absent THEN h
    ELSE IF IsList(h, value) THEN
        LET sl == NewSlice(h, value, limit)
        IN  [sl.heap EXCEPT ![trimmed].map[side] = sl.addr]
    ELSE IF IsDict(h, value) THEN
        LET nested == CopyDict(h, value)
            i == FirstListKey(nested.heap, nested.addr)
        IN  IF i = 0 THEN nested.heap
            ELSE LET key == NestedKeys[i]
                     sl == NewSlice(nested.heap,
                                    nested.heap[nested.addr].map[key], limit)
                     h2 == [sl.heap EXCEPT ![nested.addr].map[key] = sl.addr]
                 IN  [h2 EXCEPT ![trimmed].map[side] = nested.addr]
    ELSE h

RECURSIVE TrimSides(_, _, _, _)
TrimSides(h, trimmed, sides, limit) ==
    IF sides = <<>> THEN h
    ELSE TrimSides(TrimSide(h, trimmed, Head(sides), limit), trimmed,
                   Tail(sides), limit)

\* _limit_mover_payload(payload, limit): the heap it leaves and the
\* address it returns.
LimitMoverPayload(h, payload, limit) ==
    IF ~IsDict(h, payload) THEN [heap |-> h, addr |-> payload]
    ELSE LET trimmed == CopyDict(h, payload)
         IN  [heap |-> TrimSides(trimmed.heap, trimmed.addr, Sides, limit),
              addr |-> trimmed.addr]

\* ----------------------------------------------- vendor payload shapes
(* The vendor guarantees no schema.  A side (the value under gainers or    *)
(* losers) is missing, a str, a list of 0..MaxLen movers, or a mapping     *)
(* whose keys items, data, list are each missing, a str, a list of one     *)
(* mover or a list of MaxLen movers.                                       *)
SlotShapes == {"absent", "str", "short", "long"}

SlotLen(slot) == IF slot = "short" THEN 1 ELSE MaxLen

SideShapes ==
    {[kind |-> k, len |-> 0, slots |-> <<"absent", "absent", "absent">>] :
        k \in {"absent", "str"}}
    \cup {[kind |-> "list", len |-> n, slots |-> <<"absent", "absent", "absent">>] :
            n \in 0..MaxLen}
    \cup {[kind |-> "dict", len |-> 0, slots |-> <<a, b, c>>] :
            a \in SlotShapes, b \in SlotShapes, c \in SlotShapes}

AbsentSide == [kind |-> "absent", len |-> 0, slots |-> <<"absent", "absent", "absent">>]

PayloadShapes ==
    {[top |-> "dict", g |-> g, l |-> l] : g \in SideShapes, l \in SideShapes}
    \cup {[top |-> t, g |-> AbsentSide, l |-> AbsentSide] : t \in {"list", "str"}}

\* The movers of the list at address a: distinct per list and per place.
Movers(a, n) == [i \in 1..n |-> 10 * a + i]

SideAddr(shape, a) ==
    IF shape.kind = "absent" THEN Absent
    ELSE IF shape.kind = "str" THEN Layout.str
    ELSE a

SlotAddr(slot, a) ==
    IF slot = "absent" THEN Absent
    ELSE IF slot = "str" THEN Layout.str
    ELSE a

SideObj(shape, a, slotAddrs) ==
    IF shape.kind = "list" THEN ListObj(Movers(a, shape.len))
    ELSE IF shape.kind = "dict" THEN
        DictObj([k \in Keys |->
            IF k = "items" THEN SlotAddr(shape.slots[1], slotAddrs[1])
            ELSE IF k = "data" THEN SlotAddr(shape.slots[2], slotAddrs[2])
            ELSE IF k = "list" THEN SlotAddr(shape.slots[3], slotAddrs[3])
            ELSE Absent])
    ELSE FreeObj

SlotObj(shape, i, slotAddrs) ==
    IF shape.kind = "dict" /\ shape.slots[i] \in {"short", "long"}
    THEN ListObj(Movers(slotAddrs[i], SlotLen(shape.slots[i])))
    ELSE FreeObj

\* The heap holding a vendor mover payload of the given shape at Layout.top.
MoverHeap(shape) ==
    [a \in Addrs |->
        IF a = Layout.none THEN NoneObj
        ELSE IF a = Layout.str THEN StrObj
        ELSE IF a = Layout.top THEN
            IF shape.top = "dict" THEN
                DictObj([k \in Keys |->
                    IF k = "gainers" THEN SideAddr(shape.g, Layout.gainers)
                    ELSE IF k = "losers" THEN SideAddr(shape.l, Layout.losers)
                    ELSE IF k = "other" THEN Layout.other
                    ELSE Absent])
            ELSE IF shape.top = "list" THEN ListObj(Movers(a, MaxLen))
            ELSE StrObj
        ELSE IF a = Layout.gainers THEN SideObj(shape.g, a, Layout.gslots)
        ELSE IF a = Layout.losers THEN SideObj(shape.l, a, Layout.lslots)
        ELSE IF a = Layout.other /\ shape.top = "dict" THEN ListObj(Movers(a, MaxLen))
        ELSE IF \E i \in 1..3 : Layout.gslots[i] = a THEN
            SlotObj(shape.g, CHOOSE i \in 1..3 : Layout.gslots[i] = a, Layout.gslots)
        ELSE IF \E i \in 1..3 : Layout.lslots[i] = a THEN
            SlotObj(shape.l, CHOOSE i \in 1..3 : Layout.lslots[i] = a, Layout.lslots)
        ELSE FreeObj]

\* ------------------------------------------------- request-scoped state
NoQuery == [symbol |-> "", start |-> NoneStr, end |-> NoneStr,
            timeframe |-> NoneStr, limit |-> [some |-> FALSE, n |-> 0]]

NoReq == [type |-> "none"]

NoResponse ==
    [status |-> "none", exc |-> "", field |-> "", body |-> Absent, symbol |-> ""]

ReqIdle ==
    /\ route = "none"
    /\ query = NoQuery
    /\ now = 0
    /\ events = <<>>
    /\ vendorReq = NoReq
    /\ response = NoResponse

LiveIdle == delivered = 0 /\ callbacks = 0 /\ printed = 0

TfIdle == tfArg = NoneStr /\ tfRet = TimeFrameMinute

MvIdle == heap0 = EmptyHeap /\ arg = Absent /\ lim = 0 /\ ret = Absent

\* --------------------------------------- SpecTimeframe: the resolver
Pads == UNION {[1..n -> Whitespace] : n \in 0..MaxPad}

TfCores ==
    {Tok1Min, Tok5Min, Tok15Min, Tok1Hour, Tok1Day,
     <<>>, <<"1", "m", "i", "n">>, <<"1", "M", "i">>, <<"M", "i", "n">>,
     <<"5", "M", "i", "n", "s">>, <<"1", " ", "M", "i", "n">>, <<"1", "5">>,
     <<"1", "H", "o", "u", "r", "1", "D", "a", "y">>, <<"x">>}

TfInputs == {NoneStr} \cup {Str(p \o c \o q) : p \in Pads, c \in TfCores, q \in Pads}

TfInit ==
    /\ pc = "call"
    /\ tfArg \in TfInputs
    /\ tfRet = TimeFrameMinute
    /\ heap = EmptyHeap
    /\ MvIdle /\ ReqIdle /\ LiveIdle

CallResolveTimeframe ==
    /\ pc = "call"
    /\ tfRet' = ResolveTimeframe(tfArg)
    /\ pc' = "returned"
    /\ UNCHANGED <<tfArg, heap, mvVars, reqVars, liveVars>>

TfNext == CallResolveTimeframe

SpecTimeframe == TfInit /\ [][TfNext]_vars

\* ------------------------------------- SpecMovers: _limit_mover_payload
Limits == -2 .. MaxLimit

MvInit ==
    /\ pc = "call"
    /\ \E shape \in PayloadShapes : heap = MoverHeap(shape)
    /\ heap0 = heap
    /\ arg = Layout.top
    /\ lim \in Limits
    /\ ret = Absent
    /\ TfIdle /\ ReqIdle /\ LiveIdle

CallLimitMoverPayload ==
    /\ pc = "call"
    /\ LET r == LimitMoverPayload(heap, arg, lim)
       IN  heap' = r.heap /\ ret' = r.addr
    /\ pc' = "returned"
    /\ UNCHANGED <<heap0, arg, lim, tfVars, reqVars, liveVars>>

MvNext == CallLimitMoverPayload

SpecMovers == MvInit /\ [][MvNext]_vars

\* ------------------------------------------------------------ _parse_iso
(* A date string is a sequence of symbols.  The well-formed ISO strings of *)
(* the model are one digit d, naming the instant d hours after             *)
(* datetime.min, optionally followed by the offset "+00:00"; the designator*)
(* "Z" is a symbol of its own.                                             *)
DigitChars == <<"0", "1", "2", "3", "4", "5", "6", "7", "8", "9">>

IsDigit(c) == \E i \in 1..Len(DigitChars) : DigitChars[i] = c

HourOf(c) == (CHOOSE i \in 1..Len(DigitChars) : DigitChars[i] = c) - 1

\* datetime.min, in hours.
MinDT == 0

NoneDT == [some |-> FALSE, t |-> 0, aware |-> FALSE]

DT(t, aware) == [some |-> TRUE, t |-> t, aware |-> aware]

\* datetime.fromisoformat: the datetime, or ValueError.
FromIsoFormat(s) ==
    IF Len(s) = 1 /\ IsDigit(s[1])
    THEN [exc |-> "none", dt |-> DT(HourOf(s[1]), FALSE)]
    ELSE IF Len(s) = 2 /\ IsDigit(s[1]) /\ s[2] = "+00:00"
    THEN [exc |-> "none", dt |-> DT(HourOf(s[1]), TRUE)]
    ELSE [exc |-> "ValueError", dt |-> NoneDT]

\* str.replace("Z", "+00:00"): every occurrence.
ReplaceZ(s) == [i \in 1..Len(s) |-> IF s[i] = "Z" THEN "+00:00" ELSE s[i]]

ParseIso(value) ==
    IF ~Truthy(value) THEN [exc |-> "none", dt |-> NoneDT]
    ELSE LET v == IF value.s[Len(value.s)] = "Z" THEN ReplaceZ(value.s)
                  ELSE value.s
             r == FromIsoFormat(v)
         IN  IF r.exc = "ValueError" THEN [exc |-> "none", dt |-> NoneDT]
             ELSE r

\* timedelta(hours=2)
TwoHours == 2

\* dt - timedelta(hours=h): OverflowError below datetime.min.
MinusHours(dt, h) ==
    IF dt.t - h < MinDT THEN [exc |-> "OverflowError", dt |-> NoneDT]
    ELSE [exc |-> "none", dt |-> DT(dt.t - h, dt.aware)]

\* Lines 154-159 of get_stock_bars: the resolved range, or the exception
\* that ends the request.
ResolveRange(start, end, nowT) ==
    LET s == ParseIso(start)
        e == ParseIso(end)
    IN  IF s.exc # "none" THEN [exc |-> s.exc, start |-> NoneDT, end |-> NoneDT]
        ELSE IF e.exc # "none" THEN [exc |-> e.exc, start |-> NoneDT, end |-> NoneDT]
        ELSE LET end_dt == IF ~e.dt.some THEN DT(nowT, TRUE) ELSE e.dt
             IN  IF s.dt.some
                 THEN [exc |-> "none", start |-> s.dt, end |-> end_dt]
                 ELSE LET d == MinusHours(end_dt, TwoHours)
                      IN  [exc |-> d.exc, start |-> d.dt,
                           end |-> IF d.exc = "none" THEN end_dt ELSE NoneDT]

\* --------------------------------------------------- _serialize_response
SerializeResponse(h, payload) ==
    IF h[payload].attrs["model_dump"] # Absent
    THEN h[payload].attrs["model_dump"]
    ELSE IF h[payload].attrs["dict"] # Absent THEN h[payload].attrs["dict"]
    ELSE payload

\* ----------------------------------------------------- vendor responses
\* How the vendor hands a payload over: as it is, or inside an object with
\* model_dump() only, dict() only, or both (dict() then returning another,
\* empty, mapping).
Wraps == {"plain", "model", "legacy", "both"}

Wrapped(h, wrap) ==
    IF wrap = "plain" THEN [heap |-> h, addr |-> Layout.top]
    ELSE [heap |->
            [h EXCEPT
                ![Layout.wrapper] = ModelObj([m \in Attrs |->
                    IF m = "model_dump"
                    THEN (IF wrap \in {"model", "both"} THEN Layout.top ELSE Absent)
                    ELSE (IF wrap = "legacy" THEN Layout.top
                          ELSE IF wrap = "both" THEN Layout.legacy
                          ELSE Absent)]),
                ![Layout.legacy] = IF wrap = "both" THEN DictObj(NoMap) ELSE FreeObj],
          addr |-> Layout.wrapper]

\* Bars payloads: a mapping with a bars key, a mapping without, a list, a str.
BarsTops == {"bars", "nobars", "list", "str"}

BarsHeap(top) ==
    [a \in Addrs |->
        IF a = Layout.none THEN NoneObj
        ELSE IF a = Layout.str THEN StrObj
        ELSE IF a = Layout.other /\ top \in {"bars", "nobars"}
        THEN ListObj(Movers(a, MaxLen))
        ELSE IF a = Layout.top THEN
            IF top = "bars" THEN DictObj([NoMap EXCEPT !["bars"] = Layout.other])
            ELSE IF top = "nobars" THEN DictObj([NoMap EXCEPT !["other"] = Layout.other])
            ELSE IF top = "list" THEN ListObj(Movers(a, MaxLen))
            ELSE StrObj
        ELSE FreeObj]

\* Screener payloads tried on the two routes that do not trim.
ScreenerShapes ==
    {sh \in PayloadShapes :
        \/ sh.top # "dict"
        \/ /\ sh.g.kind = "list" /\ sh.g.len = MaxLen
           /\ sh.l.kind \in {"list", "absent"} /\ sh.l.len <= 1}

\* Assets: opaque ids, each with a symbol.
AssetLists == {<<>>, <<1>>, <<1, 2>>}

SymbolOf(asset) == 100 + asset

AssetHeap(assets) == [EmptyHeap EXCEPT ![Layout.top] = ListObj(assets)]

\* ------------------------------------------------------------- events
Event(kind, name, outcome, result) ==
    [kind |-> kind, name |-> name, outcome |-> outcome, result |-> result]

NewRequest(name) == Event("request", name, "returned", Absent)

Returned(name, result) == Event("call", name, "returned", result)

Raised(name) == Event("call", name, "raised", Absent)

\* ----------------------------------------------------------- responses
Envelope(field, body) ==
    [status |-> "ok", exc |-> "", field |-> field, body |-> body, symbol |-> ""]

BarsEnvelope(symbol, body) ==
    [status |-> "ok", exc |-> "", field |-> "bars", body |-> body, symbol |-> symbol]

\* An exception left the handler: the framework answers with a generic
\* server error.
ServerError(exc) ==
    [status |-> "error", exc |-> exc, field |-> "", body |-> Absent, symbol |-> ""]

\* The handler returned None.
NullResponse ==
    [status |-> "ok", exc |-> "", field |-> "", body |-> Layout.none, symbol |-> ""]

\* ------------------------------------------------------------ handlers
Init ==
    /\ pc = "idle"
    /\ heap = EmptyHeap
    /\ TfIdle /\ MvIdle /\ ReqIdle /\ LiveIdle

Accept(r) ==
    /\ pc = "idle"
    /\ route' = r
    /\ pc' = "done"
    /\ UNCHANGED <<tfVars, mvVars, liveVars>>

\* GET /
Root ==
    /\ Accept("/")
    /\ response' = Envelope("message", Layout.str)
    /\ UNCHANGED <<heap, query, now, events, vendorReq>>

\* get_crypto_list / get_stock_list
AssetList(r, class, field) ==
    /\ Accept(r)
    /\ vendorReq' = [type |-> "GetAssetsRequest", asset_class |-> class]
    /\ \/ /\ events' = <<NewRequest("GetAssetsRequest"), Raised("get_all_assets")>>
          /\ response' = ServerError("VendorError")
          /\ heap' = heap
       \/ \E assets \in AssetLists :
            LET h == AssetHeap(assets)
                list == Fresh(h)
            IN  /\ events' = <<NewRequest("GetAssetsRequest"),
                               Returned("get_all_assets", Layout.top)>>
                /\ heap' = [h EXCEPT ![list] =
                              ListObj([i \in 1..Len(assets) |-> SymbolOf(assets[i])])]
                /\ response' = Envelope(field, list)
    /\ UNCHANGED <<query, now>>

GetCryptoListRetrying ==
    /\ Accept("/get-crypto-list")
    /\ vendorReq' = [type |-> "GetAssetsRequest", asset_class |-> "crypto"]
    /\ events' = <<NewRequest("GetAssetsRequest"), Raised("get_all_assets"),
                   Raised("get_all_assets")>>
    /\ response' = ServerError("VendorError")
    /\ UNCHANGED <<heap, query, now>>

GetCryptoList == AssetList("/get-crypto-list", "crypto", "crypto_list")

GetStockList == AssetList("/get-stock-list", "us_equity", "stock_list")

\* A screener handler: one request object, one call, the normalized payload
\* (trimmed to limit when trim holds) in the envelope.
Screener(r, req, call, field, shapes, trim, limit) ==
    /\ Accept(r)
    /\ vendorReq' = req
    /\ \/ /\ events' = <<NewRequest(req.type), Raised(call)>>
          /\ response' = ServerError("VendorError")
          /\ heap' = heap
       \/ \E sh \in shapes, wrap \in Wraps :
            LET v == Wrapped(MoverHeap(sh), wrap)
                norm == SerializeResponse(v.heap, v.addr)
                out == IF trim THEN LimitMoverPayload(v.heap, norm, limit)
                       ELSE [heap |-> v.heap, addr |-> norm]
            IN  /\ events' = <<NewRequest(req.type), Returned(call, v.addr)>>
                /\ heap' = out.heap
                /\ response' = Envelope(field, out.addr)
    /\ UNCHANGED <<query, now>>

MostActivesTop == 5

StockMoversTop == 6

CryptoMoversTop == 20

CryptoMoversLimitLoose == 6 + 1

CryptoMoversLimit == 6

GetMostActiveStocks ==
    Screener("/get-most-active-stocks",
             [type |-> "MostActivesRequest", by |-> "volume", top |-> MostActivesTop],
             "get_most_actives", "most_active_stocks", ScreenerShapes, FALSE, 0)

GetStockMarketMovers ==
    Screener("/get-stock-market-movers",
             [type |-> "MarketMoversRequest", top |-> StockMoversTop,
              market_type |-> "stocks"],
             "get_market_movers", "stock_market_movers", ScreenerShapes, FALSE, 0)

GetCryptoStockMarketMovers ==
    Screener("/get-crypto-market-movers",
             [type |-> "MarketMoversRequest", top |-> CryptoMoversTop,
              market_type |-> "crypto"],
             "get_market_movers", "crypto_market_movers", PayloadShapes, TRUE,
             CryptoMoversLimit)

\* /get-stock-bars query strings tried.
DateDigits == {DigitChars[i] : i \in 1..(MaxHour + 1)}

DateInputs ==
    {NoneStr, Str(<<>>), Str(<<"x">>), Str(<<"Z">>), Str(<<"0", "x">>),
     Str(<<"Z", "0", "Z">>)}
    \cup {Str(<<d>>) : d \in DateDigits}
    \cup {Str(<<d, "+00:00">>) : d \in DateDigits}
    \cup {Str(<<d, "Z">>) : d \in DateDigits}

NowValues == {MaxHour, MaxHour + 1}

TimeframeInputs == {Str(Tok1Min), Str(<<" ">> \o Tok1Day)}

NoLimit == [some |-> FALSE, n |-> 0]

LimitInputs == {NoLimit, [some |-> TRUE, n |-> -1]}

SymbolInputs == {"AAPL", "no such symbol"}

UnwrapBarsNever(h, bars) == bars

\* Lines 169-171: the value of the bars field.
UnwrapBars(h, bars) ==
    IF IsDict(h, bars) /\ h[bars].map["bars"] # Absent THEN h[bars].map["bars"]
    ELSE bars

GetStockBars ==
    /\ Accept("/get-stock-bars")
    /\ \E symbol \in SymbolInputs, start \in DateInputs, end \in DateInputs,
          timeframe \in TimeframeInputs, limit \in LimitInputs, t \in NowValues :
        /\ query' = [symbol |-> symbol, start |-> start, end |-> end,
                     timeframe |-> timeframe, limit |-> limit]
        /\ now' = t
        /\ LET range == ResolveRange(start, end, t)
               req == [type |-> "StockBarsRequest", symbols |-> <<symbol>>,
                       timeframe |-> ResolveTimeframe(timeframe),
                       start |-> range.start, end |-> range.end,
                       limit |-> limit, feed |-> "iex"]
           IN  IF range.exc # "none" THEN
                   /\ response' = ServerError(range.exc)
                   /\ UNCHANGED <<heap, events, vendorReq>>
               ELSE
                   /\ vendorReq' = req
                   /\ \/ /\ events' = <<NewRequest("StockBarsRequest"),
                                        Raised("get_stock_bars")>>
                         /\ response' = ServerError("VendorError")
                         /\ heap' = heap
                      \/ \E top \in BarsTops, wrap \in Wraps :
                           LET v == Wrapped(BarsHeap(top), wrap)
                               bars == SerializeResponse(v.heap, v.addr)
                           IN  /\ events' = <<NewRequest("StockBarsRequest"),
                                              Returned("get_stock_bars", v.addr)>>
                               /\ heap' = v.heap
                               /\ response' = BarsEnvelope(symbol, UnwrapBars(v.heap, bars))

\* handle_bar_data(data): prints the bar and touches nothing else.
HandleBarDataStoring(data) ==
    [printed |-> printed + 1, heap |-> [heap EXCEPT ![Fresh(heap)] = ListObj(<<data>>)]]

HandleBarData(data) == [printed |-> printed + 1, heap |-> heap]

\* The one symbol subscribe_bars is given: the string, not the two tickers.
LiveSymbols == {"[\"AAPL\", \"MSFT\"]"}

\* get_live_bars up to the point where stock_stream.run() blocks.
GetLiveBars ==
    /\ pc = "idle"
    /\ route' = "/get-live-bars"
    /\ vendorReq' = [type |-> "StockDataStream", handler |-> "handle_bar_data",
                     symbols |-> LiveSymbols]
    /\ \/ /\ events' = <<Event("stream", "StockDataStream", "returned", Absent),
                         Raised("subscribe_bars")>>
          /\ response' = ServerError("VendorError")
          /\ pc' = "done"
       \/ /\ events' = <<Event("stream", "StockDataStream", "returned", Absent),
                         Returned("subscribe_bars", Absent)>>
          /\ response' = response
          /\ pc' = "blocked"
    /\ UNCHANGED <<heap, query, now, tfVars, mvVars, liveVars>>

\* The stream receives a bar for a subscribed symbol and dispatches it.
BarArrives ==
    /\ pc = "blocked"
    /\ delivered < MaxBars
    /\ \E sym \in vendorReq.symbols :
        LET after == HandleBarData(delivered + 1)
        IN  /\ printed' = after.printed
            /\ heap' = after.heap
    /\ delivered' = delivered + 1
    /\ callbacks' = callbacks + 1
    /\ UNCHANGED <<pc, tfVars, mvVars, reqVars>>

\* The stream ends: run() returns (the handler returns None) or raises.
StreamEnds ==
    /\ pc = "blocked"
    /\ \/ /\ events' = Append(events, Returned("run", Absent))
          /\ response' = NullResponse
       \/ /\ events' = Append(events, Raised("run"))
          /\ response' = ServerError("VendorError")
    /\ pc' = "done"
    /\ UNCHANGED <<heap, route, query, now, vendorReq, tfVars, mvVars, liveVars>>

\* The response is sent and everything the request built is dropped.
NextRequest ==
    /\ pc = "done"
    /\ pc' = "idle"
    /\ heap' = EmptyHeap
    /\ route' = "none"
    /\ query' = NoQuery
    /\ now' = 0
    /\ events' = <<>>
    /\ vendorReq' = NoReq
    /\ response' = NoResponse
    /\ delivered' = 0 /\ callbacks' = 0 /\ printed' = 0
    /\ UNCHANGED <<tfVars, mvVars>>

Next ==
    \/ Root
    \/ GetCryptoList
    \/ GetStockList
    \/ GetMostActiveStocks
    \/ GetStockMarketMovers
    \/ GetCryptoStockMarketMovers
    \/ GetStockBars
    \/ GetLiveBars
    \/ BarArrives
    \/ StreamEnds
    \/ NextRequest

Spec == Init /\ [][Next]_vars

\* =========================================================== claims
\* ---- C1 (SpecTimeframe)
\* value is tok with nothing but whitespace before and after it.
PaddedToken(value, tok) ==
    /\ value.some
    /\ \E i \in 0..Len(value.s) :
        /\ i + Len(tok) <= Len(value.s)
        /\ SubSeq(value.s, i + 1, i + Len(tok)) = tok
        /\ \A k \in 1..Len(value.s) :
            (k <= i \/ k > i + Len(tok)) => value.s[k] \in Whitespace

TokenTable ==
    {<<Tok1Min, TimeFrame(1, "Minute")>>, <<Tok5Min, TimeFrame(5, "Minute")>>,
     <<Tok15Min, TimeFrame(15, "Minute")>>, <<Tok1Hour, TimeFrame(1, "Hour")>>,
     <<Tok1Day, TimeFrame(1, "Day")>>}

\* C1 as stated: each of the five tokens resolves to its granularity, and
\* absent input, empty input and every other string resolve to the
\* 1-minute default.
C1_AnyOtherStringDefaults ==
    pc = "returned" =>
        /\ \A e \in TokenTable : tfArg = Str(e[1]) => tfRet = e[2]
        /\ (\A e \in TokenTable : tfArg # Str(e[1])) => tfRet = TimeFrame(1, "Minute")

\* C1 amended: the input is stripped of surrounding whitespace before the
\* exact match, so a token with whitespace around it resolves to the
\* token's granularity; absent input, empty input and every string whose
\* stripped form is none of the five tokens resolve to the 1-minute
\* default.  The resolver returns on every input.
C1_StrippedTokenResolves ==
    pc = "returned" =>
        /\ \A e \in TokenTable : PaddedToken(tfArg, e[1]) => tfRet = e[2]
        /\ (\A e \in TokenTable : ~PaddedToken(tfArg, e[1]))
             => tfRet = TimeFrame(1, "Minute")

C1_Witness ==
    /\ pc = "returned"
    /\ tfArg = Str(<<" ">> \o Tok15Min)
    /\ tfRet = TimeFrame(15, "Minute")

\* ---- C4, C5, C9 (SpecMovers)
Min(a, b) == IF a <= b THEN a ELSE b

Max(a, b) == IF a >= b THEN a ELSE b

\* r is the first n elements of s, in order.
IsPrefixOfLen(r, s, n) ==
    /\ Len(r) = n
    /\ n <= Len(s)
    /\ \A i \in 1..n : r[i] = s[i]

\* "the first N elements (the whole sequence when it has N or fewer)";
\* no elements for an N below zero.
IsFirstN(r, s, n) == IsPrefixOfLen(r, s, Min(Max(n, 0), Len(s)))

\* What the code keeps: the first N elements for N >= 0, all but the last
\* -N elements for N < 0.
IsKept(r, s, n) ==
    IsPrefixOfLen(r, s, IF n >= 0 THEN Min(n, Len(s)) ELSE Max(Len(s) + n, 0))

InputSide(side) == heap0[arg].map[side]

ResultSide(side) == heap[ret].map[side]

SideNames == {"gainers", "losers"}

\* C4 as stated: for any limit N, a side holding a list comes back as
\* exactly the first N elements of that list, in order.
C4_SequenceFirstN_AnyLimit ==
    (pc = "returned" /\ IsDict(heap0, arg)) =>
        \A side \in SideNames :
            IsList(heap0, InputSide(side)) =>
                /\ IsList(heap, ResultSide(side))
                /\ IsFirstN(heap[ResultSide(side)].elems,
                            heap0[InputSide(side)].elems, lim)

\* C4 amended: for any limit N >= 0 a side holding a list comes back as
\* exactly the first N elements of that list in order (the whole list when
\* it has N or fewer); for N < 0 it comes back as the list without its
\* last -N elements.
C4_SequenceSlice ==
    (pc = "returned" /\ IsDict(heap0, arg)) =>
        \A side \in SideNames :
            IsList(heap0, InputSide(side)) =>
                /\ IsList(heap, ResultSide(side))
                /\ IsKept(heap[ResultSide(side)].elems,
                          heap0[InputSide(side)].elems, lim)

\* gainers [1..7], losers [1, 2], N = 6 yields gainers [1..6], losers [1, 2].
C4_Witness ==
    /\ pc = "returned"
    /\ lim = 6
    /\ IsList(heap0, InputSide("gainers")) /\ IsList(heap0, InputSide("losers"))
    /\ Len(heap0[InputSide("gainers")].elems) = 7
    /\ Len(heap0[InputSide("losers")].elems) = 2
    /\ Len(heap[ResultSide("gainers")].elems) = 6
    /\ Len(heap[ResultSide("losers")].elems) = 2

NestedNames == {"items", "data", "list"}

\* The side's value is one the trimming replaces.
Trimmable(v) ==
    \/ IsList(heap0, v)
    \/ IsDict(heap0, v) /\ \E k \in NestedNames : IsList(heap0, heap0[v].map[k])

\* C5: the call leaves every object that existed before it (the input
\* mapping, the nested mappings, the lists) with the contents it had, and
\* the result maps every key other than a trimmed gainers/losers key to the
\* same value as the input.
C5_InputNotMutated ==
    pc = "returned" =>
        /\ \A a \in Addrs : heap0[a].kind # "free" => heap[a] = heap0[a]
        /\ IsDict(heap0, arg) =>
            \A k \in Keys :
                ~(k \in SideNames /\ Trimmable(InputSide(k)))
                    => ResultSide(k) = InputSide(k)

\* A nested-mapping side and a list side were both cut short, and there
\* is a key that was left alone.
C5_Witness ==
    /\ pc = "returned"
    /\ IsDict(heap0, InputSide("gainers"))
    /\ IsList(heap0, heap0[InputSide("gainers")].map["items"])
    /\ IsList(heap0, InputSide("losers"))
    /\ lim = 3
    /\ Len(heap0[InputSide("losers")].elems) = 7
    /\ Len(heap[ResultSide("losers")].elems) = 3
    /\ Len(heap[heap[ResultSide("gainers")].map["items"]].elems) = 3
    /\ Len(heap0[heap0[InputSide("gainers")].map["items"]].elems) = 7
    /\ ResultSide("other") = InputSide("other")

\* k is the first of items, data, list, in that order, holding a list in
\* the mapping at v.
FirstListUnder(v, k) ==
    /\ IsList(heap0, heap0[v].map[k])
    /\ k = "data" => ~IsList(heap0, heap0[v].map["items"])
    /\ k = "list" => /\ ~IsList(heap0, heap0[v].map["items"])
                     /\ ~IsList(heap0, heap0[v].map["data"])

\* The nested-mapping rule; firstN says which reading of "truncated" is
\* meant: IsFirstN or IsKept.
NestedRule(firstN) ==
    pc = "returned" =>
        /\ ~IsDict(heap0, arg) => ret = arg /\ heap = heap0
        /\ IsDict(heap0, arg) =>
            \A side \in SideNames :
                LET v == InputSide(side)
                    r == ResultSide(side)
                IN  /\ ~Trimmable(v) => r = v
                    /\ (v # Absent /\ ~Trimmable(v)) => heap[r] = heap0[v]
                    /\ IsDict(heap0, v) =>
                        \A k \in NestedNames :
                            FirstListUnder(v, k) =>
                                /\ IsDict(heap, r)
                                /\ IsList(heap, heap[r].map[k])
                                /\ LET new == heap[heap[r].map[k]].elems
                                       old == heap0[heap0[v].map[k]].elems
                                   IN  IF firstN THEN IsFirstN(new, old, lim)
                                       ELSE IsKept(new, old, lim)
                                /\ \A k2 \in Keys \ {k} :
                                    /\ heap[r].map[k2] = heap0[v].map[k2]
                                    /\ heap0[v].map[k2] # Absent =>
                                        heap[heap[r].map[k2]]
                                            = heap0[heap0[v].map[k2]]

\* C9 as stated: in a nested mapping only the list under the first of
\* items, data, list that holds a list is truncated to its first N
\* elements, everything else in it is kept; any other shape of side, and a
\* payload that is no mapping, comes back unmodified.
C9_NestedFirstN ==
    NestedRule(TRUE)

\* C9 amended: the same, with the selected list truncated to its first N
\* elements for N >= 0 and to all but its last -N elements for N < 0.
C9_NestedSlice ==
    NestedRule(FALSE)

\* items holds a str, data and list hold lists: data is cut, list is not.
C9_Witness ==
    /\ pc = "returned"
    /\ lim = 3
    /\ IsDict(heap0, InputSide("gainers"))
    /\ ~IsList(heap0, heap0[InputSide("gainers")].map["items"])
    /\ heap0[InputSide("gainers")].map["items"] # Absent
    /\ IsList(heap0, heap0[InputSide("gainers")].map["data"])
    /\ IsList(heap0, heap0[InputSide("gainers")].map["list"])
    /\ Len(heap0[heap0[InputSide("gainers")].map["data"]].elems) = 7
    /\ Len(heap[heap[ResultSide("gainers")].map["data"]].elems) = 3
    /\ Len(heap[heap[ResultSide("gainers")].map["list"]].elems) = 7

\* ---- C2, C3, C6, C7, C8, C10 (Spec)
BarsDone == pc = "done" /\ route = "/get-stock-bars"

\* The range C2 describes for the request in flight.
ClaimedEnd ==
    IF ParseIso(query.end).dt.some THEN ParseIso(query.end).dt ELSE DT(now, TRUE)

ClaimedStart ==
    IF ParseIso(query.start).dt.some THEN ParseIso(query.start).dt
    ELSE DT(ClaimedEnd.t - 2, ClaimedEnd.aware)

\* C2: for every combination of start and end being absent, unparseable
\* or parseable, the range handed to the vendor has end = the parsed end,
\* else the current instant, and start = the parsed start, else that end
\* minus two hours; with start absent or unparseable, start <= end.
C2_RangeResolved ==
    BarsDone =>
        /\ vendorReq.type = "StockBarsRequest"
        /\ vendorReq.end = ClaimedEnd
        /\ vendorReq.start = ClaimedStart
        /\ ~ParseIso(query.start).dt.some => vendorReq.start.t <= vendorReq.end.t

\* What is left of C2 on the code: it holds of every request that did not
\* end in the OverflowError of end - timedelta(hours=2).
C2_RangeResolvedUnlessOverflow ==
    (BarsDone /\ response.exc # "OverflowError") =>
        /\ vendorReq.type = "StockBarsRequest"
        /\ vendorReq.end = ClaimedEnd
        /\ vendorReq.start = ClaimedStart
        /\ ~ParseIso(query.start).dt.some => vendorReq.start.t <= vendorReq.end.t

WellFormedDate(s) ==
    /\ Len(s) \in {1, 2}
    /\ IsDigit(s[1])
    /\ Len(s) = 2 => s[2] \in {"+00:00", "Z"}

Malformed(value) == Truthy(value) /\ ~WellFormedDate(value.s)

\* C3: a malformed start or end never surfaces as a parse failure; the
\* request reaches the vendor call with the default substituted for the
\* malformed field.
C3_MalformedFallsBack ==
    (BarsDone /\ (Malformed(query.start) \/ Malformed(query.end))) =>
        /\ response.exc # "ValueError"
        /\ \E i \in 1..Len(events) : events[i].kind = "call"
        /\ vendorReq.type = "StockBarsRequest"
        /\ Malformed(query.end) => vendorReq.end = DT(now, TRUE)
        /\ Malformed(query.start) =>
            vendorReq.start = DT(vendorReq.end.t - 2, vendorReq.end.aware)

\* What is left of C3 on the code: the parser itself turns every malformed
\* string into None, and no request ends in the parser's ValueError.
C3_ParseNeverRaises ==
    /\ \A value \in DateInputs :
        /\ ParseIso(value).exc = "none"
        /\ Malformed(value) => ~ParseIso(value).dt.some
    /\ BarsDone => response.exc # "ValueError"

\* The movers on one side of a payload: the list under the side, or the
\* list under the first of items, data, list when the side is a mapping.
SideEntries(body, side) ==
    IF ~IsDict(heap, body) THEN 0
    ELSE LET v == heap[body].map[side] IN
         IF IsList(heap, v) THEN Len(heap[v].elems)
         ELSE IF ~IsDict(heap, v) THEN 0
         ELSE IF IsList(heap, heap[v].map["items"])
         THEN Len(heap[heap[v].map["items"]].elems)
         ELSE IF IsList(heap, heap[v].map["data"])
         THEN Len(heap[heap[v].map["data"]].elems)
         ELSE IF IsList(heap, heap[v].map["list"])
         THEN Len(heap[heap[v].map["list"]].elems)
         ELSE 0

CountKind(kind) == Cardinality({i \in 1..Len(events) : events[i].kind = kind})

\* A failed vendor call is the last one and ends the request in an error
\* without envelope.
FailureNotCaught ==
    \A i \in 1..Len(events) :
        events[i].outcome = "raised" =>
            /\ i = Len(events)
            /\ response.status = "error"
            /\ response.field = ""
            /\ response.body = Absent

\* C7 as stated: every handler builds exactly one vendor request object
\* and makes exactly one vendor call per request before it answers; a
\* failed call is not caught, not retried, and no envelope is returned.
C7_EveryHandlerOneRequestOneCall ==
    pc = "done" =>
        /\ CountKind("request") = 1
        /\ CountKind("call") = 1
        /\ FailureNotCaught

DataRoutes ==
    {"/get-crypto-list", "/get-stock-list", "/get-most-active-stocks",
     "/get-stock-market-movers", "/get-crypto-market-movers", "/get-stock-bars"}

\* C7 amended: the handlers of the six data routes build at most one
\* vendor request object and make at most one vendor call per request, the
\* object first, and have done exactly one of each whenever they answer
\* with their envelope; GET / makes no vendor call at all; /get-live-bars
\* builds a stream object, no request object, and calls subscribe_bars and
\* then run on it.  A failed vendor call is not caught: it is the request's
\* last call (no retry) and the request ends in an error without envelope.
C7_VendorCallDiscipline ==
    pc = "done" =>
        /\ route \in DataRoutes =>
            \/ events = <<>> /\ response.status = "error"
            \/ /\ Len(events) = 2
               /\ events[1].kind = "request" /\ events[1].name = vendorReq.type
               /\ events[2].kind = "call"
        /\ (route \in DataRoutes /\ response.status = "ok") =>
            /\ Len(events) = 2
            /\ events[2].outcome = "returned"
            /\ response.field # ""
        /\ route = "/" =>
            events = <<>> /\ response = Envelope("message", Layout.str)
        /\ route = "/get-live-bars" =>
            /\ CountKind("request") = 0
            /\ Len(events) \in {2, 3}
            /\ events[1].kind = "stream"
            /\ events[2].kind = "call" /\ events[2].name = "subscribe_bars"
            /\ Len(events) = 3 => events[3].kind = "call" /\ events[3].name = "run"
        /\ FailureNotCaught

\* A data route whose vendor call failed.
C7_Witness ==
    /\ pc = "done" /\ route = "/get-crypto-list"
    /\ Len(events) = 2
    /\ events[2].outcome = "raised"
    /\ response.status = "error"

\* C8: while get_live_bars is blocked in the running stream no response
\* exists for the request, the handler leaves that state only when the
\* stream's run() ends, and each bar that arrives invokes the callback
\* exactly once and changes nothing but the printed output.
C8_LiveBarsNeverCompletes ==
    [][/\ pc' = "blocked" =>
            /\ route' = "/get-live-bars"
            /\ response' = NoResponse
            /\ callbacks' = delivered'
       /\ (pc = "blocked" /\ pc' # "blocked") =>
            events'[Len(events')].name = "run"
       /\ (pc = "blocked" /\ delivered' # delivered) =>
            /\ delivered' = delivered + 1
            /\ callbacks' = callbacks + 1
            /\ printed' = printed + 1
            /\ UNCHANGED <<pc, heap, reqVars, tfVars, mvVars>>]_vars

\* Two bars in, two callbacks, the handler still blocked.
C8_Witness ==
    /\ pc = "blocked" /\ route = "/get-live-bars"
    /\ delivered = 2 /\ callbacks = 2
    /\ response = NoResponse

\* C10: a completed /get-stock-bars answers with the symbol as supplied
\* and, under bars, the value under the bars key of the normalized vendor
\* payload when that payload is a mapping with a bars key, the whole
\* normalized payload otherwise.
C10_BarsEnvelope ==
    (BarsDone /\ response.status = "ok") =>
        LET norm == SerializeResponse(heap, events[2].result) IN
        /\ response.symbol = query.symbol
        /\ response.field = "bars"
        /\ response.body =
            IF IsDict(heap, norm) /\ heap[norm].map["bars"] # Absent
            THEN heap[norm].map["bars"]
            ELSE norm

\* The vendor object's model_dump() gave a mapping with a bars key.
C10_Witness ==
    /\ BarsDone /\ response.status = "ok"
    /\ query.symbol = "AAPL"
    /\ events[2].result = Layout.wrapper
    /\ heap[Layout.wrapper].attrs["model_dump"] = Layout.top
    /\ heap[Layout.top].map["bars"] = Layout.other
    /\ response.body = Layout.other
    /\ response.symbol = "AAPL"

====
